---- MODULE Spec2Model ----
(***************************************************************************)
(* 1D viscous Burgers equation, pseudo-spectral right-hand side and fixed  *)
(* step integration (pykoopman/common/vbe.py).                             *)
(*                                                                         *)
(* Numbers.  numpy's float64 / complex128 values are modelled exactly in   *)
(* the field GF(P^2) = Z_P[i] with P = 11: a complex number is a pair      *)
(* <<re, im>> of residues, a real number is a pair with im = 0.  The field *)
(* has a conjugation, inverses of 2, 6 and of every transform length used, *)
(* and the norm-1 element W12 is a primitive 12th root of unity, so the    *)
(* discrete Fourier transform of every length dividing 12 exists and       *)
(* inverts exactly.  Rounding is not modelled.  dt, n_int and n_sample     *)
(* stay integers (their sign matters); elapsed time is an integer sum of   *)
(* dt.                                                                     *)
(*                                                                         *)
(* Arrays.  A numpy array is an object on a heap (a sequence of objects);  *)
(* a reference names an object, or a row of a two-dimensional object (a    *)
(* numpy view).  Arithmetic yields fresh values; slice assignment writes   *)
(* through a reference.  Python index j is position j + 1 of a sequence.   *)
(***************************************************************************)
EXTENDS Integers, Sequences, FiniteSets, TLC

VARIABLES self, mem, built, call, prev, elapsed

vars == <<self, mem, built, call, prev, elapsed>>

(* ------------------------------ bounds --------------------------------- *)
MaxInt == 4
MaxSample == 3
MaxTraj == 2
MaxN == 6
MaxPasses == 2

(* ----------------------- complex128 arithmetic ------------------------- *)
P == 11

\* the element of a one-element set: The({e : v \in {d}}) is e with v naming d
The(S) == CHOOSE v \in S : TRUE

Max(a, b) == IF a >= b THEN a ELSE b

\* a real number as a complex one
Re(r) == <<r % P, 0>>

CAdd(a, b) == <<(a[1] + b[1]) % P, (a[2] + b[2]) % P>>

CMul(a, b) == <<(a[1] * b[1] - a[2] * b[2]) % P, (a[1] * b[2] + a[2] * b[1]) % P>>

RECURSIVE CPow(_, _)
CPow(z, e) == IF e = 0 THEN <<1, 0>> ELSE CMul(z, CPow(z, e - 1))

\* 1 / r for a real r that is not 0 (Fermat)
Inv(r) == CPow(Re(r), P - 2)

\* the imaginary unit 1j
ImagUnit == <<0, 1>>

\* exp(2 pi i / 12); W12^3 = 1j
W12 == <<3, 6>>

\* the powers W12^0 .. W12^11, at positions 1..12
Unit12 == [e \in 1..12 |-> CPow(W12, e - 1)] \o <<>>

\* exp(2 pi i e / n) for a length n dividing 12
Root(n, e) == Unit12[(((12 \div n) * (e % n)) % 12) + 1]

(* -------------------------- array arithmetic --------------------------- *)
\* numpy broadcasting of two one-dimensional operands
Broadcastable(a, b) == Len(a) = Len(b) \/ Len(a) = 1 \/ Len(b) = 1

At(a, i) == IF Len(a) = 1 THEN a[1] ELSE a[i]

\* an array given by its elements, evaluated once into a sequence
Arr(f) == f \o <<>>

VAdd(a, b) == Arr([i \in 1..Max(Len(a), Len(b)) |-> CAdd(At(a, i), At(b, i))])

VMul(a, b) == Arr([i \in 1..Max(Len(a), Len(b)) |-> CMul(At(a, i), At(b, i))])

Scale(c, a) == Arr([i \in 1..Len(a) |-> CMul(c, a[i])])

\* np.real
Real(a) == Arr([i \in 1..Len(a) |-> <<a[i][1], 0>>])

Zeros(n) == Arr([i \in 1..n |-> <<0, 0>>])

\* sum of the elements of an array
RECURSIVE CSum(_, _)
CSum(s, n) == IF n = 0 THEN <<0, 0>> ELSE CAdd(s[n], CSum(s, n - 1))

\* scipy.fft.fft as a value: X[j] = sum_m x[m] exp(-2 pi i j m / n)
DFT(x) ==
  LET n == Len(x)
  IN Arr([jj \in 1..n |->
            CSum(Arr([mm \in 1..n |-> CMul(x[mm], Root(n, -((jj - 1) * (mm - 1))))]), n)])

\* scipy.fft.ifft: x[m] = (1/n) sum_j X[j] exp(2 pi i j m / n)
ifft(xk) ==
  LET n == Len(xk)
  IN Scale(Inv(n),
       Arr([mm \in 1..n |->
              CSum(Arr([jj \in 1..n |-> CMul(xk[jj], Root(n, (jj - 1) * (mm - 1)))]), n)]))

(* ------------------------------- heap ---------------------------------- *)
Ref(a, r) == [addr |-> a, row |-> r]

Read(h, ref) == IF ref.row = 0 THEN h[ref.addr] ELSE h[ref.addr][ref.row]

Write(h, ref, v) ==
  IF ref.row = 0 THEN [h EXCEPT ![ref.addr] = v]
  ELSE [h EXCEPT ![ref.addr][ref.row] = v]

\* a fresh array object holding v
Alloc(h, v) == [h |-> Append(h, v), ref |-> Ref(Len(h) + 1, 0)]

(* ------------------------------ engine --------------------------------- *)
\* python's // (floor division), b # 0
FloorDiv(a, b) == IF b > 0 THEN a \div b ELSE (-a) \div (-b)

\* python's % (the sign of the divisor), b # 0
PyMod(a, b) == a - b * FloorDiv(a, b)

\* scipy.fft.fftfreq(n, 1.0 / n): the integer frequency of index j
fftfreq(n) ==
  LET half == FloorDiv(n - 1, 2) + 1
  IN Arr([jj \in 1..n |-> IF jj <= half THEN jj - 1 ELSE -FloorDiv(n, 2) + (jj - 1 - half)])

\* default nu = 0.1
NuDefault == Inv(10)

\* vbe.__init__: the engine fields; k lives on the heap at address 1
KRef == Ref(1, 0)

WaveNumbers(n, dk) == Arr([jj \in 1..n |-> CMul(Re(fftfreq(n)[jj]), dk)])

vbe_init(n, dt, nu, dk) == [n_states |-> n, nu |-> nu, k |-> KRef, dt |-> dt]

\* xk[lo:hi] = 0j on an array of any length (a slice clips to the array)
ZeroSlice(xk, lo, hi) ==
  Arr([jj \in 1..Len(xk) |-> IF lo <= jj - 1 /\ jj - 1 < hi THEN <<0, 0>> ELSE xk[jj]])

\* variant: the upper end taken as 2 * (n // 3)
DealiasShort(xk, n) == ZeroSlice(xk, FloorDiv(n, 3), 2 * FloorDiv(n, 3))

\* the 3/2 truncation step of sys on the coefficient array xk of an engine of n states
Dealias(xk, n) == ZeroSlice(xk, FloorDiv(n, 3), FloorDiv(2 * n, 3))

\* xk[n // 3 : 2 * n // 3] = 0j, written into the object xk names
truncate(h, xkref) == Write(h, xkref, Dealias(Read(h, xkref), self.n_states))

\* variant: the transform overwrites its argument (overwrite_x) and is returned
fftInPlace(h, xref) == [h |-> Write(h, xref, DFT(Read(h, xref))), ref |-> xref]

\* xk = fft(x): a new array object, x is left as it is
fft(h, xref) == Alloc(h, DFT(Read(h, xref)))

\* vbe.sys(t, x, u) on heap h; x is a reference.  err: the ValueError numpy
\* raises when self.k and the transform do not broadcast.
sys(h, t, xref, u) ==
  LET s1 == fft(h, xref)
      h2 == truncate(s1.h, s1.ref)
      xk == Read(h2, s1.ref)
      x == ifft(xk)
      tmp_nl_k == DFT(Scale(Inv(-2), VMul(x, x)))
      k == Read(h2, self.k)
  IN IF ~Broadcastable(k, tmp_nl_k)
     THEN [h |-> h2, err |-> "ValueError", y |-> <<>>]
     ELSE LET tmp_nl_x_k == VMul(Scale(ImagUnit, k), tmp_nl_k)
              tmp_vis_k == VMul(Scale(CMul(Re(-1), self.nu), VMul(k, k)), xk)
          IN [h |-> h2, err |-> "none", y |-> Real(ifft(VAdd(tmp_nl_x_k, tmp_vis_k)))]

\* func(t, x + c * k, u): the stage argument is a new array
stage(k, xref, c, t, u) ==
  The({sys(a.h, t, a.ref, u) : a \in {Alloc(k.h, VAdd(Read(k.h, xref), Scale(c, k.y)))}})

\* pykoopman.common.examples.rk4(t, x, u, _dt, func) with func = self.sys:
\* the classic four stages, u held fixed.  t is a placeholder sys never reads.
rk4(h, t, xref, u, dt) ==
  LET half == CMul(Re(dt), Inv(2))
      fail(k) == [h |-> k.h, err |-> k.err, y |-> <<>>]
  IN The({IF k1.err # "none" THEN fail(k1) ELSE
       The({IF k2.err # "none" THEN fail(k2) ELSE
         The({IF k3.err # "none" THEN fail(k3) ELSE
           The({IF k4.err # "none" THEN fail(k4) ELSE
                  [h |-> k4.h, err |-> "none",
                   y |-> VAdd(Read(k4.h, xref),
                              Scale(CMul(Re(dt), Inv(6)),
                                    VAdd(VAdd(k1.y, Scale(Re(2), k2.y)),
                                         VAdd(Scale(Re(2), k3.y), k4.y))))] :
                k4 \in {stage(k3, xref, Re(dt), t, u)}}) :
              k3 \in {stage(k2, xref, half, t, u)}}) :
            k2 \in {stage(k1, xref, half, t, u)}}) :
          k1 \in {sys(h, t, xref, u)}})

(* ----------------------------- simulate -------------------------------- *)
\* variant: one row per step
nRowsAll(n_int, n_sample) == n_int

\* the number of rows of X: n_int // n_sample
nRows(n_int, n_sample) == FloorDiv(n_int, n_sample)

\* variant: the stride counted from step 0
isSampleEarly(step, n_sample) == PyMod(step, n_sample) = 0

\* the stride test of the loop
isSample(step, n_sample) == PyMod(step + 1, n_sample) = 0

\* variant: the elapsed time t handed to rk4 in place of self.dt
stepSizeElapsed(t, step) == t

\* the step size handed to rk4 at a step taken at elapsed time t
stepSize(t, step) == self.dt

\* one pass of the loop body, on the loop state st
simStep(st, step, n_sample) ==
  The({IF r.err # "none" THEN [st EXCEPT !.h = r.h, !.err = r.err]
       ELSE IF isSample(step, n_sample)
       THEN IF st.j >= Len(st.X) THEN [st EXCEPT !.h = r.h, !.err = "IndexError"]
            ELSE IF Len(r.y) # self.n_states /\ Len(r.y) # 1
            THEN [st EXCEPT !.h = r.h, !.err = "ValueError"]
            ELSE [h |-> Alloc(r.h, r.y).h, err |-> "none", x |-> Alloc(r.h, r.y).ref,
                  t |-> st.t + self.dt, j |-> st.j + 1,
                  X |-> [st.X EXCEPT
                           ![st.j + 1] = Arr([i \in 1..self.n_states |-> At(r.y, i)])],
                  t_list |-> Append(st.t_list, st.t + self.dt)]
       ELSE [st EXCEPT !.h = Alloc(r.h, r.y).h, !.x = Alloc(r.h, r.y).ref,
                       !.t = st.t + self.dt] :
       r \in {rk4(st.h, 0, st.x, 0, stepSize(st.t + self.dt, step))}})

RECURSIVE simLoop(_, _, _, _)
simLoop(st, step, n_int, n_sample) ==
  IF step >= n_int \/ st.err # "none" THEN st
  ELSE simLoop(simStep(st, step, n_sample), step + 1, n_int, n_sample)

\* vbe.simulate(x0, n_int, n_sample) on heap h
simulate(h, x0ref, n_int, n_sample) ==
  LET fail(e) == [h |-> h, err |-> e, X |-> <<>>, times |-> <<>>]
  IN IF n_int < 0 THEN fail("ValueError")
     ELSE IF n_sample = 0 THEN fail("ZeroDivisionError")
     ELSE IF nRows(n_int, n_sample) < 0 THEN fail("ValueError")
     ELSE The({IF st.err # "none"
               THEN [h |-> st.h, err |-> st.err, X |-> <<>>, times |-> <<>>]
               ELSE [h |-> st.h, err |-> "none", X |-> st.X, times |-> st.t_list] :
               st \in {simLoop([h |-> h, err |-> "none", x |-> x0ref, t |-> 0, j |-> 0,
                                X |-> Arr([i \in 1..nRows(n_int, n_sample) |->
                                             Zeros(self.n_states)]),
                                t_list |-> <<>>], 0, n_int, n_sample)}})

(* ------------------------- batch collectors ---------------------------- *)
\* variant: x0[0] in place of x0[i]
rowFirst(x0ref, i) == Ref(x0ref.addr, 1)

\* x0[i]: a view of row i of the batch
rowOf(x0ref, i) == Ref(x0ref.addr, i)

\* the loop of collect_data_continuous from row i on; Y is the list so far
RECURSIVE contLoop(_, _, _, _, _)
contLoop(h, x0ref, i, n_traj, Y) ==
  IF i > n_traj THEN [h |-> h, err |-> "none", Y |-> Y]
  ELSE The({IF r.err # "none" THEN [h |-> r.h, err |-> r.err, Y |-> <<>>]
            ELSE contLoop(r.h, x0ref, i + 1, n_traj, Append(Y, r.y)) :
            r \in {sys(h, 0, rowOf(x0ref, i), 0)}})

\* vbe.collect_data_continuous(x0): X is x0 itself, Y the stacked rows
collect_data_continuous(h, x0ref) ==
  The({[h |-> r.h, err |-> r.err, X |-> x0ref, Y |-> r.Y] :
       r \in {contLoop(h, x0ref, 1, Len(Read(h, x0ref)), <<>>)}})

\* the loop of collect_one_step_data_discrete; each y is a (1, n_states) array
RECURSIVE discLoop(_, _, _, _, _)
discLoop(h, x0ref, i, n_traj, Y) ==
  IF i > n_traj THEN [h |-> h, err |-> "none", Y |-> Y]
  ELSE The({IF r.err # "none" THEN [h |-> r.h, err |-> r.err, Y |-> <<>>]
            ELSE discLoop(r.h, x0ref, i + 1, n_traj, Y \o r.X) :
            r \in {simulate(h, rowOf(x0ref, i), 1, 1)}})

\* vbe.collect_one_step_data_discrete(x0)
collect_one_step_data_discrete(h, x0ref) ==
  The({[h |-> r.h, err |-> r.err, X |-> x0ref, Y |-> r.Y] :
       r \in {discLoop(h, x0ref, 1, Len(Read(h, x0ref)), <<>>)}})

\* vbe.collect_one_trajectory_data(x0, n_int, n_sample): the states only
collect_one_trajectory_data(h, x0ref, n_int, n_sample) ==
  The({[h |-> r.h, err |-> r.err, X |-> r.X] : r \in {simulate(h, x0ref, n_int, n_sample)}})

(* ------------------------------ callers -------------------------------- *)
GridSizes == {3, 4}

StepSizes == {-1, 0, 1, 2}

Lengths == {1, 2, 3, 4}

Pulse(m) == Arr([i \in 1..m |-> IF i = 1 THEN <<1, 0>> ELSE <<0, 0>>])

Ramp(m) == Arr([i \in 1..m |-> <<i + 1, 0>>])

\* the state vectors a caller passes, of every length
States == UNION {{Pulse(m), Ramp(m)} : m \in Lengths}

\* rectangular batches of 1..MaxTraj rows
Batches ==
  UNION {UNION {[1..n -> {Pulse(m), Ramp(m)}] : n \in 1..MaxTraj} : m \in Lengths}

NoLeg == [x0 |-> <<>>, n_int |-> 0, last |-> <<>>]

NoCall == [op |-> "none", x0 |-> <<>>, n_int |-> 0, n_sample |-> 0, err |-> "none",
           X |-> <<>>, times |-> <<>>, Y |-> <<>>]

\* the (start, steps, end state) legs a finished call offers for a restart
Legs(c) ==
  IF c.err # "none" THEN {}
  ELSE IF c.op \in {"simulate", "trajectory"}
  THEN IF c.n_sample = 1 /\ c.n_int >= 1
       THEN {[x0 |-> c.x0, n_int |-> c.n_int, last |-> c.X[Len(c.X)]]}
       ELSE {}
  ELSE IF c.op = "discrete"
  THEN {[x0 |-> c.x0[i], n_int |-> 1, last |-> c.Y[i]] : i \in 1..Len(c.Y)}
  ELSE {}

\* objects alive after a call: the engine's k and the caller's array
Live(h) == SubSeq(h, 1, 2)

\* model = vbe(n, x, dt): nu and L keep their defaults, so dk = 1
Init ==
  \E n \in GridSizes, dt \in StepSizes :
    /\ self = vbe_init(n, dt, NuDefault, Re(1))
    /\ mem = <<WaveNumbers(n, Re(1))>>
    /\ built = [n_states |-> n, nu |-> NuDefault, k |-> WaveNumbers(n, Re(1)), dt |-> dt]
    /\ call = NoCall
    /\ prev = NoLeg
    /\ elapsed = 0

\* the engine has served no call yet.  A call on given arguments reads only self and
\* the array self.k, which no call changes (C6_NothingMutated), so the calls made from
\* an engine that served calls before reach the states the calls from an idle one
\* reach; only restarts, which take their argument from the last call, start later.
Idle == call.op = "none"

\* model.sys(0, x, 0)
Rhs ==
  /\ Idle
  /\ \E x \in States :
       \E r \in {sys(<<mem[1], x>>, 0, Ref(2, 0), 0)} :
         /\ mem' = Live(r.h)
         /\ call' = [op |-> "sys", x0 |-> x, n_int |-> 0, n_sample |-> 0, err |-> r.err,
                     X |-> <<>>, times |-> <<>>,
                     Y |-> IF r.err = "none" THEN <<r.y>> ELSE <<>>]
         /\ prev' = NoLeg /\ elapsed' = 0
         /\ UNCHANGED <<self, built>>

\* model.simulate(x0, n_int, n_sample)
Simulate ==
  /\ Idle
  /\ \E x \in States, n_int \in -1..MaxInt, n_sample \in -1..MaxSample :
       \E r \in {simulate(<<mem[1], x>>, Ref(2, 0), n_int, n_sample)} :
         /\ mem' = Live(r.h)
         /\ call' = [op |-> "simulate", x0 |-> x, n_int |-> n_int, n_sample |-> n_sample,
                     err |-> r.err, X |-> r.X, times |-> r.times, Y |-> <<>>]
         /\ prev' = NoLeg /\ elapsed' = Max(n_int, 0)
         /\ UNCHANGED <<self, built>>

\* model.collect_one_trajectory_data(x0, n_int, n_sample)
CollectTrajectory ==
  /\ Idle
  /\ \E x \in States, n_int \in -1..MaxInt, n_sample \in -1..MaxSample :
       \E r \in {collect_one_trajectory_data(<<mem[1], x>>, Ref(2, 0), n_int, n_sample)} :
         /\ mem' = Live(r.h)
         /\ call' = [op |-> "trajectory", x0 |-> x, n_int |-> n_int, n_sample |-> n_sample,
                     err |-> r.err, X |-> r.X, times |-> <<>>, Y |-> <<>>]
         /\ prev' = NoLeg /\ elapsed' = Max(n_int, 0)
         /\ UNCHANGED <<self, built>>

\* model.collect_data_continuous(x0_array)
CollectContinuous ==
  /\ Idle
  /\ \E b \in Batches :
       \E r \in {collect_data_continuous(<<mem[1], b>>, Ref(2, 0))} :
         /\ mem' = Live(r.h)
         /\ call' = [op |-> "continuous", x0 |-> b, n_int |-> 0, n_sample |-> 0,
                     err |-> r.err,
                     X |-> IF r.err = "none" THEN Read(r.h, r.X) ELSE <<>>,
                     times |-> <<>>, Y |-> r.Y]
         /\ prev' = NoLeg /\ elapsed' = 0
         /\ UNCHANGED <<self, built>>

\* model.collect_one_step_data_discrete(x0_array)
CollectDiscrete ==
  /\ Idle
  /\ \E b \in Batches :
       \E r \in {collect_one_step_data_discrete(<<mem[1], b>>, Ref(2, 0))} :
         /\ mem' = Live(r.h)
         /\ call' = [op |-> "discrete", x0 |-> b, n_int |-> 1, n_sample |-> 1,
                     err |-> r.err,
                     X |-> IF r.err = "none" THEN Read(r.h, r.X) ELSE <<>>,
                     times |-> <<>>, Y |-> r.Y]
         /\ prev' = NoLeg /\ elapsed' = 1
         /\ UNCHANGED <<self, built>>

\* the caller goes on from the state a call ended in: simulate(y, b, 1), at most
\* MaxInt steps along one chain
Restart ==
  \E l \in Legs(call), b \in 1..(MaxInt - elapsed) :
    \E r \in {simulate(<<mem[1], l.last>>, Ref(2, 0), b, 1)} :
      /\ mem' = Live(r.h)
      /\ call' = [op |-> "simulate", x0 |-> l.last, n_int |-> b, n_sample |-> 1,
                  err |-> r.err, X |-> r.X, times |-> r.times, Y |-> <<>>]
      /\ prev' = l /\ elapsed' = elapsed + b
      /\ UNCHANGED <<self, built>>

\* the same, the second leg taken by collect_one_trajectory_data(y, b, 1)
RestartTrajectory ==
  \E l \in Legs(call), b \in 1..(MaxInt - elapsed) :
    \E r \in {collect_one_trajectory_data(<<mem[1], l.last>>, Ref(2, 0), b, 1)} :
      /\ mem' = Live(r.h)
      /\ call' = [op |-> "trajectory", x0 |-> l.last, n_int |-> b, n_sample |-> 1,
                  err |-> r.err, X |-> r.X, times |-> <<>>, Y |-> <<>>]
      /\ prev' = l /\ elapsed' = elapsed + b
      /\ UNCHANGED <<self, built>>

Next ==
  \/ Rhs
  \/ Simulate
  \/ CollectTrajectory
  \/ CollectContinuous
  \/ CollectDiscrete
  \/ Restart
  \/ RestartTrajectory

Spec == Init /\ [][Next]_vars

(* --------------------- the truncation step alone ----------------------- *)
\* coefficient arrays of length n, no coefficient zero
Coeffs(n) == [1..n -> {<<1, 0>>, <<0, 1>>}]

\* an engine of any size n >= 1 and a coefficient array xk of its length, on the heap
InitDealias ==
  \E n \in 1..MaxN :
    \E xk \in Coeffs(n) :
      /\ self = vbe_init(n, 1, NuDefault, Re(1))
      /\ mem = <<WaveNumbers(n, Re(1)), xk>>
      /\ built = [n_states |-> n, nu |-> NuDefault, k |-> WaveNumbers(n, Re(1)), dt |-> 1]
      /\ call = [NoCall EXCEPT !.x0 = xk]
      /\ prev = NoLeg
      /\ elapsed = 0

\* one pass of xk[n // 3 : 2 * n // 3] = 0j; call.n_int counts the passes
Truncate ==
  /\ call.n_int < MaxPasses
  /\ mem' = truncate(mem, Ref(2, 0))
  /\ call' = [call EXCEPT !.op = "truncate", !.n_int = @ + 1]
  /\ UNCHANGED <<self, built, prev, elapsed>>

SpecDealias == InitDealias /\ [][Truncate]_vars

(* ------------------------------ claims --------------------------------- *)
\* the length of the state vector (or of the batch rows) the last call was given
InLen(c) == IF c.op \in {"continuous", "discrete"} THEN Len(c.x0[1]) ELSE Len(c.x0)

\* the last call is simulate on a state of the engine's length with n_int, n_sample >= 1
GoodSimulate ==
  /\ call.op = "simulate"
  /\ Len(call.x0) = self.n_states
  /\ call.n_int >= 1
  /\ call.n_sample >= 1

\* the state k integrator steps after x, taken one rk4 step at a time
RECURSIVE StateAfter(_, _)
StateAfter(x, k) ==
  IF k = 0 THEN x
  ELSE The({rk4(<<mem[1], y>>, 0, Ref(2, 0), 0, self.dt).y : y \in {StateAfter(x, k - 1)}})

\* C1: simulate(x0, n_int, n_sample) with n_int >= 1 and n_sample >= 1 returns, and
\* returns exactly floor(n_int / n_sample) states and as many timestamps: q with
\* q * n_sample <= n_int < (q + 1) * n_sample.
C1_SampleCount ==
  GoodSimulate =>
    /\ call.err = "none"
    /\ Len(call.X) = Len(call.times)
    /\ Len(call.X) * call.n_sample <= call.n_int
    /\ call.n_int < (Len(call.X) + 1) * call.n_sample

\* C1 witness: a run with a trailing partial stride, and samples before it
C1_Witness ==
  /\ GoodSimulate
  /\ call.n_int % call.n_sample # 0
  /\ Len(call.X) >= 1

C4_RejectsNonPositive ==
  (call.op = "simulate" /\ (self.dt <= 0 \/ call.n_int <= 0 \/ call.n_sample <= 0)) =>
    call.err # "none"

\* C5 (as claimed): a call given a state (or batch rows) of a length other than the
\* engine's ends in an error.
C5_RejectsWrongLength ==
  (call.op # "none" /\ InLen(call) # self.n_states) => call.err # "none"

\* C6: after every call the engine parameters are those of construction and the
\* caller's array holds what it held before the call.
C6_NothingMutated ==
  /\ self.n_states = built.n_states
  /\ self.nu = built.nu
  /\ self.dt = built.dt
  /\ Read(mem, self.k) = built.k
  /\ call.op # "none" => mem[2] = call.x0

\* C6 witness: a multi-step simulate that returned states other than its input
C6_Witness ==
  /\ GoodSimulate
  /\ call.err = "none"
  /\ call.n_int >= 2
  /\ Len(call.X) >= 1
  /\ call.X[1] # call.x0

\* C10: a run restarted from the end of a leg of a steps ends, after b more steps,
\* where one run of a + b steps from the leg's start ends; the timestamps of the
\* restarted run begin at dt again.
C10_Restartable ==
  (prev # NoLeg /\ call.err = "none") =>
    /\ call.x0 = prev.last
    /\ call.X[Len(call.X)] =
         The({r.X[Len(r.X)] :
              r \in {simulate(<<mem[1], prev.x0>>, Ref(2, 0), prev.n_int + call.n_int, 1)}})
    /\ call.op = "simulate" => call.times[1] = self.dt

\* C10 witness: a second leg taken by collect_one_trajectory_data, that moved the state
C10_Witness ==
  /\ prev # NoLeg
  /\ call.err = "none"
  /\ call.op = "trajectory"
  /\ prev.n_int >= 2
  /\ call.X[Len(call.X)] # prev.last

(* ------------------- claims on the truncation step --------------------- *)
\* index j (from 0) lies in [floor(n / 3), floor(2 n / 3))
InMiddleThird(j, n) == n <= 3 * j + 2 /\ 3 * j + 3 <= 2 * n

\* C7: once the step has run, exactly the coefficients at the indices j with
\* floor(N/3) <= j < floor(2N/3) are zero and the others are as they were; a second
\* pass changes nothing.
C7_DealiasIndexSet ==
  call.op = "truncate" =>
    /\ \A jj \in 1..self.n_states :
         mem[2][jj] = IF InMiddleThird(jj - 1, self.n_states) THEN <<0, 0>> ELSE call.x0[jj]
    /\ truncate(mem, Ref(2, 0)) = mem

\* C7 witness: two passes over an array with a coefficient zeroed and one kept
C7_Witness ==
  /\ call.op = "truncate"
  /\ call.n_int = 2
  /\ \E jj \in 1..self.n_states : mem[2][jj] = <<0, 0>>
  /\ \E jj \in 1..self.n_states : mem[2][jj] # <<0, 0>>

\* C8 (as claimed): for N >= 3 the zeroed indices are closed under j -> N - j
C8_ConjugateClosed ==
  (call.op = "truncate" /\ self.n_states >= 3) =>
    \A j \in 1..(self.n_states - 1) :
      (mem[2][j + 1] = <<0, 0>>) <=> (mem[2][self.n_states - j + 1] = <<0, 0>>)

\* |f| of index j (from 0) under the frequencies k is built from
AbsFreq(j, n) == IF fftfreq(n)[j + 1] < 0 THEN -fftfreq(n)[j + 1] ELSE fftfreq(n)[j + 1]

\* C9 (as claimed): for N >= 3 every zeroed index has |f| >= the |f| of every kept index
C9_HighestThird ==
  (call.op = "truncate" /\ self.n_states >= 3) =>
    \A j1, j2 \in 0..(self.n_states - 1) :
      (mem[2][j1 + 1] = <<0, 0>> /\ mem[2][j2 + 1] # <<0, 0>>) =>
        AbsFreq(j1, self.n_states) >= AbsFreq(j2, self.n_states)

====
